---------------------------- MODULE Spec2Model ----------------------------
(***************************************************************************)
(* XMLtoJSON.py: a Parser thread reads input.xml character by character    *)
(* and puts tags and values on a queue; the main thread's Converter reads  *)
(* the queue, follows the XML structure with a stack, builds XMLObjects,   *)
(* converts them to lines of JSON and flushes the lines to output.json.    *)
(*                                                                         *)
(* A Python str is a sequence of one-character strings.  None is a value   *)
(* that is no Python str.  Python's 0-based indices are kept as they are   *)
(* (index, -1 for "not found"); the element at index i of a list is        *)
(* element i + 1 of the sequence that models it.                           *)
(***************************************************************************)
EXTENDS Integers, Sequences, FiniteSets, TLC

None == <<"None">>
NoFile == <<None>>
NoNode == "None"
NoChar == "None"

----------------------------------------------------------------------------
(* The strings of the program and of the inputs.                           *)

T_object == <<"<", "o", "b", "j", "e", "c", "t", ">">>
T_obj_name == <<"<", "o", "b", "j", "_", "n", "a", "m", "e", ">">>
T_field == <<"<", "f", "i", "e", "l", "d", ">">>
T_name == <<"<", "n", "a", "m", "e", ">">>
T_type == <<"<", "t", "y", "p", "e", ">">>
T_value == <<"<", "v", "a", "l", "u", "e", ">">>
S_int == <<"i", "n", "t">>
S_string == <<"s", "t", "r", "i", "n", "g">>

Digits == {"0", "1", "2", "3", "4", "5", "6", "7", "8", "9"}
Whitespace == {" ", "\n", "\t"}
NonPrintable == {"\n", "\t"}

(* str.isdigit, str.isprintable, str.strip() != "" *)
isdigit(s) == Len(s) > 0 /\ \A i \in 1..Len(s) : s[i] \in Digits
isprintable(s) == \A i \in 1..Len(s) : s[i] \notin NonPrintable
strip_nonempty(s) == \E i \in 1..Len(s) : s[i] \notin Whitespace

matching_tag(tag) ==
    IF tag[2] = "/" THEN <<"<">> \o SubSeq(tag, 3, Len(tag))
    ELSE <<"<", "/">> \o SubSeq(tag, 2, Len(tag))

(* list.index(v, start): the first 0-based index >= start, -1 when list.index raises ValueError *)
list_index(_list, _value, start) ==
    LET hits == {i \in start..(Len(_list) - 1) : _list[i + 1] = _value}
    IN  IF hits = {} THEN -1 ELSE CHOOSE i \in hits : \A j \in hits : i <= j

last_index(_list, _value) ==
    LET hits == {i \in 0..(Len(_list) - 1) : _list[i + 1] = _value}
    IN  CHOOSE i \in hits : \A j \in hits : j <= i

----------------------------------------------------------------------------
(* The XML structure, lines 722-728.                                       *)

Nodes == {"object", "obj_name", "field", "name", "type", "value"}
NoAllowedValues == {None}

object_tag ==
    [object   |-> [value |-> T_object, parent |-> NoNode, children |-> <<"obj_name", "field">>,
                   repeatable |-> TRUE, allowed_values |-> NoAllowedValues],
     obj_name |-> [value |-> T_obj_name, parent |-> "object", children |-> <<>>,
                   repeatable |-> FALSE, allowed_values |-> NoAllowedValues],
     field    |-> [value |-> T_field, parent |-> "object", children |-> <<"name", "type", "value">>,
                   repeatable |-> TRUE, allowed_values |-> NoAllowedValues],
     name     |-> [value |-> T_name, parent |-> "field", children |-> <<>>,
                   repeatable |-> FALSE, allowed_values |-> NoAllowedValues],
     type     |-> [value |-> T_type, parent |-> "field", children |-> <<>>,
                   repeatable |-> FALSE, allowed_values |-> {S_int, S_string}],
     value    |-> [value |-> T_value, parent |-> "field", children |-> <<>>,
                   repeatable |-> FALSE, allowed_values |-> NoAllowedValues]]

structure == "object"

has_child(node) == Len(object_tag[node].children) > 0

find_child(node, v) ==
    LET cs == object_tag[node].children
        hits == {i \in 1..Len(cs) : object_tag[cs[i]].value = v}
    IN  IF hits = {} THEN NoNode ELSE cs[CHOOSE i \in hits : \A j \in hits : i <= j]

RECURSIVE leaves(_)
RECURSIVE leaves_of(_, _)
(* the tags XMLObject.build and Parser.build reach below a node, in order *)
leaves(node) ==
    IF has_child(node) THEN leaves_of(object_tag[node].children, 1)
    ELSE <<object_tag[node].value>>
leaves_of(cs, i) ==
    IF i > Len(cs) THEN <<>> ELSE leaves(cs[i]) \o leaves_of(cs, i + 1)

RECURSIVE inner(_)
RECURSIVE inner_of(_, _)
inner(node) ==
    IF has_child(node) THEN <<object_tag[node].value>> \o inner_of(object_tag[node].children, 1)
    ELSE <<>>
inner_of(cs, i) ==
    IF i > Len(cs) THEN <<>> ELSE inner(cs[i]) \o inner_of(cs, i + 1)

Range(s) == {s[i] : i \in 1..Len(s)}
value_tags == Range(leaves(structure))
other_tags == Range(inner(structure))

tag_to_node(_tag) ==
    IF \E n \in Nodes : object_tag[n].value = _tag
    THEN CHOOSE n \in Nodes : object_tag[n].value = _tag
    ELSE NoNode


----------------------------------------------------------------------------
(* The input files the model reads.  A document is a sequence of objects,  *)
(* an object a name and a sequence of field blocks, a field block three    *)
(* optional leaves; a leaf that is None is left out of the text.           *)

MaxFields == 2
MaxObjects == 2

S_Alpha == <<"A", "l", "p", "h", "a">>
S_B == <<"B">>
S_count == <<"c", "o", "u", "n", "t">>

FieldInt == [n |-> S_count, t |-> S_int, v |-> <<"5">>]
FieldComma == [n |-> <<"x", ",", "y">>, t |-> S_string, v |-> <<"a", ",", "b">>]
FieldBadInt == [n |-> <<"n">>, t |-> S_int, v |-> <<"v">>]
FieldBadType == [n |-> <<"m">>, t |-> <<"f">>, v |-> <<"6">>]
FieldNoName == [n |-> None, t |-> S_int, v |-> <<"7">>]
FieldSlash == [n |-> <<"a", "/", "b">>, t |-> S_string, v |-> <<"s">>]

FieldSet == {FieldInt, FieldComma, FieldBadInt, FieldBadType, FieldNoName, FieldSlash}
BodySet == {<<>>, <<FieldInt>>, <<FieldBadInt>>}
NameSet == {S_Alpha, S_B}

SeqsUpTo(S, n) == UNION {[1..k -> S] : k \in 0..n}

Leaf(tag, v) == IF v = None THEN <<>> ELSE <<tag, v, matching_tag(tag)>>

RECURSIVE Concat(_)
Concat(ss) == IF ss = <<>> THEN <<>> ELSE Head(ss) \o Concat(Tail(ss))

FieldToks(f) ==
    <<T_field>> \o Leaf(T_name, f.n) \o Leaf(T_type, f.t) \o Leaf(T_value, f.v)
        \o <<matching_tag(T_field)>>
ObjToks(o) ==
    <<T_object>> \o Leaf(T_obj_name, o.name)
        \o Concat([i \in 1..Len(o.fields) |-> FieldToks(o.fields[i])])
        \o <<matching_tag(T_object)>>
DocToks(d) == Concat([i \in 1..Len(d) |-> ObjToks(d[i])])

(* one object with up to MaxFields field blocks of any kind *)
DocsFields == {<<[name |-> S_Alpha, fields |-> fs]>> : fs \in SeqsUpTo(FieldSet, MaxFields)}
(* up to MaxObjects objects with at most one field block each *)
DocsObjects == SeqsUpTo([name : NameSet, fields : BodySet], MaxObjects)
Docs == DocsFields \union DocsObjects

(* damaged documents: a token left out, a token put in, the text cut off *)
BaseToks == DocToks(<<[name |-> S_Alpha, fields |-> <<FieldInt, FieldComma>>]>>)
ShortToks == DocToks(<<[name |-> S_Alpha, fields |-> <<FieldInt>>]>>)
Junk == {<<"<", "b", ">">>, <<"a", "&", "b">>, <<"\n">>, <<"z">>,
         T_object, T_field, matching_tag(T_field), matching_tag(T_type)}
DropAt(toks, i) == SubSeq(toks, 1, i - 1) \o SubSeq(toks, i + 1, Len(toks))
InsertAt(toks, i, t) == SubSeq(toks, 1, i) \o <<t>> \o SubSeq(toks, i + 1, Len(toks))

Inputs ==
    {Concat(DocToks(d)) : d \in Docs}
    \union {Concat(DropAt(BaseToks, i)) : i \in 1..Len(BaseToks)}
    \union {Concat(InsertAt(ShortToks, i, t)) : i \in 0..Len(ShortToks), t \in Junk}
    \union {SubSeq(Concat(BaseToks), 1, k) : k \in 0..Len(Concat(BaseToks))}

----------------------------------------------------------------------------
VARIABLES
    input,            \* the text of input.xml
    file_state,       \* "ok", "missing" (os.path.isfile is False), "unreadable" (open raises IOError)
    \* Parser
    queue,            \* Parser.queue
    has_running,      \* Parser has the attribute running
    running,          \* Parser.running
    char_counter,     \* Parser.char_counter
    perr,             \* the Parser's error stream
    \* the thread of Parser.run
    lpc,              \* "start", "loop", "put", "done", "dead" (ended by an exception)
    char, read_value, read_next_char, string,
    closed,           \* input_file.close() was called
    \* Converter
    mpc,              \* the main thread: "init", "loop", "closing", "convert", "group", "flush", "done"
    stack, top,       \* Converter.stack: XMLStructureStack.stack, .top
    string_counter, current_object, objects,
    verr,             \* the Converter's error stream
    \* Converter.convert
    json, object_number, object_names, object_name, index, correct_object,
    out_file,         \* the strings written to output.json, NoFile when it was not opened
    \* history
    enqueued,         \* every string put on the queue, in order
    dequeued,         \* every string read_string returned, in order
    field_blocks,     \* how many <field> blocks were opened in the current object
    block_base,       \* how many slots the current object had when the last one was opened
    last_set,         \* the last call of set_value: its block, the slot it wrote, its errors
    trail             \* the decisions of convert: object, group, lines put, errors sent

parserVars == <<queue, has_running, running, char_counter, perr>>
threadVars == <<lpc, char, read_value, read_next_char, string, closed>>
stackVars == <<stack, top>>
converterVars == <<string_counter, current_object, objects, verr>>
convertVars == <<json, object_number, object_names, object_name, index, correct_object>>
blockVars == <<field_blocks, block_base, last_set>>
history == <<blockVars, trail>>
vars == <<input, file_state, parserVars, threadVars, mpc, stackVars, converterVars,
          convertVars, out_file, enqueued, dequeued, history>>

----------------------------------------------------------------------------
(* Parser, lines 87-273.                                                   *)

maxsize == 0
full(q) == 0 < maxsize /\ maxsize <= Len(q)

input_filename == <<"i", "n", "p", "u", "t", ".", "x", "m", "l">>
illegal_characters == {"<", ">", "\"", "'", "&"}

(* Parser.error: the entry put on the error stream *)
parser_error(message, s, cc) ==
    [number |-> IF Len(message) > cc THEN 0 ELSE cc - Len(s),
     msg |-> message,
     str |-> IF isprintable(s) THEN s ELSE None]

is_value_tag(tag) == tag \in value_tags

(* is_correct_tag raises IndexError in matching_tag when the tag is "<" alone *)
tag_raises(tag) == tag \notin value_tags /\ tag \notin other_tags /\ Len(tag) < 2
is_correct_tag(tag) ==
    \/ tag \in value_tags \/ tag \in other_tags
    \/ matching_tag(tag) \in value_tags \/ matching_tag(tag) \in other_tags

(* is_correct_value without the test of lines 200-202 *)
is_only_printable(v) == isprintable(v)

has_illegal(v) == \E i \in 1..Len(v) : v[i] \in illegal_characters
is_correct_value(v) == ~has_illegal(v) /\ isprintable(v)
value_error(v, cc) ==
    IF has_illegal(v) THEN parser_error("Found illegal characters in value", v, cc)
    ELSE parser_error("Found non-printable characters in value", v, cc)

(* the inner loops of run: read up to '>' (a tag), up to '<' (a value), or to the end *)
RECURSIVE read_tag(_, _)
read_tag(cc, s) ==
    IF cc >= Len(input) THEN [string |-> s, cc |-> cc, char |-> NoChar]
    ELSE IF input[cc + 1] = ">" THEN [string |-> Append(s, ">"), cc |-> cc + 1, char |-> ">"]
    ELSE read_tag(cc + 1, Append(s, input[cc + 1]))

RECURSIVE read_text(_, _)
read_text(cc, s) ==
    IF cc >= Len(input) THEN [string |-> s, cc |-> cc, char |-> NoChar]
    ELSE IF input[cc + 1] = "<" THEN [string |-> s, cc |-> cc + 1, char |-> "<"]
    ELSE read_text(cc + 1, Append(s, input[cc + 1]))

Init ==
    /\ file_state \in {"ok", "missing", "unreadable"}
    /\ input \in (IF file_state = "ok" THEN Inputs ELSE {<<>>})
    /\ queue = <<>> /\ has_running = FALSE /\ running = FALSE
    /\ char_counter = 0 /\ perr = <<>>
    /\ lpc = "start" /\ char = NoChar /\ read_value = FALSE /\ read_next_char = TRUE
    /\ string = <<>> /\ closed = FALSE
    /\ mpc = "init"
    /\ stack = <<>> /\ top = NoNode
    /\ string_counter = 0
    /\ current_object = [tags |-> leaves(structure), values |-> [i \in 1..Len(leaves(structure)) |-> None]]
    /\ objects = <<>> /\ verr = <<>>
    /\ json = <<>> /\ object_number = 0 /\ object_names = <<>> /\ object_name = None
    /\ index = 0 /\ correct_object = FALSE
    /\ out_file = NoFile
    /\ enqueued = <<>> /\ dequeued = <<>>
    /\ field_blocks = 0 /\ block_base = 0 /\ trail = <<>>
    /\ last_set = [block |-> 0, base |-> 0, index |-> -1, errors |-> <<>>]

(* run, lines 218-224 and 270-273: the file is looked up and opened *)
ParserOpen ==
    /\ lpc = "start"
    /\ IF file_state = "ok"
       THEN /\ lpc' = "loop"
            /\ UNCHANGED <<has_running, running, perr>>
       ELSE /\ lpc' = "done"
            /\ has_running' = TRUE /\ running' = FALSE
            /\ perr' = Append(perr, parser_error(
                   IF file_state = "missing" THEN "Could not find file" ELSE "Unable to open file",
                   input_filename, char_counter))
    /\ UNCHANGED <<input, file_state, queue, char_counter, char, read_value, read_next_char,
                   string, closed, mpc, stackVars, converterVars, convertVars, out_file,
                   enqueued, dequeued, history>>

(* run, lines 227-269: one pass of "while self.running" *)
ParserLoop ==
    /\ lpc = "loop"
    /\ IF ~has_running \/ (running /\ ~full(queue) /\ read_next_char /\ closed)
       THEN \* AttributeError on self.running; ValueError on reading the closed file
            /\ lpc' = "dead"
            /\ UNCHANGED <<queue, has_running, running, char_counter, perr, char, read_value,
                           read_next_char, string, closed, enqueued>>
       ELSE IF ~running
       THEN /\ lpc' = "done"
            /\ UNCHANGED <<queue, has_running, running, char_counter, perr, char, read_value,
                           read_next_char, string, closed, enqueued>>
       ELSE IF full(queue)
       THEN UNCHANGED <<queue, has_running, running, char_counter, perr, lpc, char, read_value,
                        read_next_char, string, closed, enqueued>>
       ELSE
         LET at_end == read_next_char /\ char_counter >= Len(input)
             c  == IF ~read_next_char THEN char
                   ELSE IF at_end THEN NoChar ELSE input[char_counter + 1]
             cc == IF read_next_char /\ ~at_end THEN char_counter + 1 ELSE char_counter
         IN
         IF c = NoChar
         THEN \* lines 232-235
              /\ running' = FALSE /\ closed' = TRUE /\ lpc' = "done"
              /\ char' = c /\ char_counter' = cc
              /\ UNCHANGED <<queue, has_running, perr, read_value, read_next_char, string, enqueued>>
         ELSE IF c = "<"
         THEN \* lines 236-250
              LET r == read_tag(cc, <<"<">>)
                  eof == r.char = NoChar
              IN
              /\ char' = r.char /\ char_counter' = r.cc /\ string' = r.string
              /\ read_next_char' = TRUE
              /\ running' = ~eof
              /\ closed' = (closed \/ eof)
              /\ UNCHANGED has_running
              /\ IF tag_raises(r.string)
                 THEN /\ lpc' = "dead" /\ read_value' = FALSE
                      /\ UNCHANGED <<queue, perr, enqueued>>
                 ELSE IF is_correct_tag(r.string)
                 THEN /\ lpc' = "loop" /\ read_value' = is_value_tag(r.string)
                      /\ queue' = Append(queue, r.string)
                      /\ enqueued' = Append(enqueued, r.string)
                      /\ UNCHANGED perr
                 ELSE /\ lpc' = "loop" /\ read_value' = FALSE
                      /\ perr' = Append(perr, parser_error("Found incorrect tag", r.string, r.cc))
                      /\ UNCHANGED <<queue, enqueued>>
         ELSE \* lines 251-269
              LET r == read_text(cc, <<c>>)
                  eof == r.char = NoChar
              IN
              /\ char' = r.char /\ char_counter' = r.cc /\ string' = r.string
              /\ read_next_char' = FALSE
              /\ running' = ~eof
              /\ closed' = (closed \/ eof)
              /\ UNCHANGED has_running
              /\ IF read_value /\ is_correct_value(r.string) /\ eof
                 THEN \* running is False before the value is put: the put is a step of its own
                      /\ lpc' = "put"
                      /\ UNCHANGED <<queue, perr, read_value, enqueued>>
                 ELSE IF read_value /\ is_correct_value(r.string)
                 THEN /\ lpc' = "loop" /\ read_value' = FALSE
                      /\ queue' = Append(queue, r.string)
                      /\ enqueued' = Append(enqueued, r.string)
                      /\ UNCHANGED perr
                 ELSE IF read_value
                 THEN /\ lpc' = "loop" /\ read_value' = FALSE
                      /\ perr' = Append(perr, value_error(r.string, r.cc))
                      /\ UNCHANGED <<queue, enqueued>>
                 ELSE /\ lpc' = "loop"
                      /\ perr' = IF strip_nonempty(r.string)
                                 THEN Append(perr, parser_error("Found incorrectly placed text",
                                                                r.string, r.cc))
                                 ELSE perr
                      /\ UNCHANGED <<queue, read_value, enqueued>>
    /\ UNCHANGED <<input, file_state, mpc, stackVars, converterVars, convertVars, out_file,
                   dequeued, history>>

(* run, lines 264-266, when the value ended with the file: queue.put(string) *)
ParserPut ==
    /\ lpc = "put"
    /\ lpc' = "loop"
    /\ queue' = Append(queue, string)
    /\ enqueued' = Append(enqueued, string)
    /\ read_value' = FALSE
    /\ UNCHANGED <<input, file_state, has_running, running, char_counter, perr, char,
                   read_next_char, string, closed, mpc, stackVars, converterVars, convertVars,
                   out_file, dequeued, history>>

(* Parser.__init__, line 117, after thread.start() *)
ParserInit ==
    /\ mpc = "init"
    /\ mpc' = "loop"
    /\ has_running' = TRUE /\ running' = TRUE
    /\ UNCHANGED <<input, file_state, queue, char_counter, perr, threadVars, stackVars,
                   converterVars, convertVars, out_file, enqueued, dequeued, history>>

----------------------------------------------------------------------------
(* XMLStructureStack, lines 328-369: the stack and its top node.           *)

(* push without line 350: top is not updated *)
push_keeps_top(S, node) == [stack |-> Append(S.stack, node), top |-> S.top]

push(S, node) == [stack |-> Append(S.stack, node), top |-> node]

pop(S) ==
    IF S.stack = <<>> THEN S
    ELSE LET rest == SubSeq(S.stack, 1, Len(S.stack) - 1)
         IN  [stack |-> rest, top |-> IF rest = <<>> THEN NoNode ELSE rest[Len(rest)]]

----------------------------------------------------------------------------
(* XMLObject, lines 372-468.                                               *)

NoneList(n) == [i \in 1..n |-> None]

XMLObject(_structure) ==
    [tags |-> leaves(_structure), values |-> NoneList(Len(leaves(_structure)))]

(* build without line 398: no value is appended for a tag *)
build_tags_only(o, _structure) == [o EXCEPT !.tags = @ \o leaves(_structure)]

build(o, _structure) ==
    [o EXCEPT !.tags = @ \o leaves(_structure),
              !.values = @ \o NoneList(Len(leaves(_structure)))]

(* get_value: <<value, index>> *)
get_value(o, tag, starting_index) ==
    IF starting_index >= Len(o.tags) THEN <<None, -1>>
    ELSE LET i == list_index(o.tags, tag, starting_index)
         IN  IF i = -1 THEN <<None, -1>> ELSE <<o.values[i + 1], i>>

(* the entries of the Converter's error stream: Converter.error and Converter.obj_error *)
error(counter, message, arg, s) ==
    [pre |-> "String", number |-> counter, msg |-> message, arg |-> arg, str |-> s]
obj_error(number, message, arg) ==
    [pre |-> IF number = -1 THEN "" ELSE "Object", number |-> number, msg |-> message,
     arg |-> arg, str |-> None]

(* set_value without lines 452-458: the last slot of the tag is written again *)
set_value_overwrite(o, tag, v, counter) ==
    [obj |-> [o EXCEPT !.values[last_index(o.tags, tag) + 1] = v],
     index |-> last_index(o.tags, tag), errors |-> <<>>]

(* set_value: the object after the call and the errors it sent *)
set_value(o, tag, v, counter) ==
    LET node == tag_to_node(tag)
        taken == o.values[last_index(o.tags, tag) + 1] # None
        clone == taken /\ node # NoNode /\ object_tag[object_tag[node].parent].repeatable
        o1 == IF clone THEN build(o, object_tag[node].parent) ELSE o
        i == last_index(o1.tags, tag)
    IN  IF taken /\ ~clone
        THEN [obj |-> o, index |-> -1,
              errors |-> <<error(counter, "Duplicate value definition", None, tag)>>]
        ELSE IF object_tag[node].allowed_values # NoAllowedValues
                /\ v \notin object_tag[node].allowed_values
        THEN [obj |-> o1, index |-> -1,
              errors |-> <<error(counter, "Value is not allowed in this tag", v, tag)>>]
        ELSE [obj |-> [o1 EXCEPT !.values[i + 1] = v], index |-> i, errors |-> <<>>]

----------------------------------------------------------------------------
(* Converter.run, lines 648-710.                                           *)

(* the search that forgets the push at line 671 and line 685 *)
RECURSIVE search_without_push(_, _)
search_without_push(S, s) ==
    IF S.top = NoNode THEN S
    ELSE IF find_child(S.top, s) # NoNode THEN S
    ELSE IF s = object_tag[structure].value /\ S.top = structure THEN S
    ELSE search_without_push(pop(S), s)

(* lines 668-675 and 682-689: pop until a node has the child or the root is the tag *)
RECURSIVE search(_, _)
search(S, s) ==
    IF S.top = NoNode THEN S
    ELSE IF find_child(S.top, s) # NoNode THEN push(S, find_child(S.top, s))
    ELSE IF s = object_tag[structure].value /\ S.top = structure THEN S
    ELSE search(pop(S), s)

Stk == [stack |-> stack, top |-> top]
SetStack(S) == stack' = S.stack /\ top' = S.top

(* line 656 looking at string[0] *)
is_closing_first(s) == Len(s) > 2 /\ s[1] = "/"

is_closing(s) == Len(s) > 2 /\ s[2] = "/"

(* read_string when the queue is not empty *)
ReadString ==
    /\ queue # <<>>
    /\ queue' = Tail(queue)
    /\ string_counter' = string_counter + 1
    /\ dequeued' = Append(dequeued, Head(queue))

Others == <<input, file_state, has_running, running, char_counter, perr, threadVars,
            convertVars, out_file, enqueued, trail>>

(* a <field> block is opened when the step pushes the field node *)
OpenBlock(S) ==
    /\ IF S.top = "field"
       THEN field_blocks' = field_blocks + 1 /\ block_base' = Len(current_object.tags)
       ELSE UNCHANGED <<field_blocks, block_base>>
    /\ UNCHANGED last_set

(* line 653 with the test for the top level tag left out *)
closes_any(node) == node \in Nodes

(* line 653: the closed tag is the top level tag of the structure *)
closes_object(node) == object_tag[node].value = object_tag[structure].value

(* lines 652-655 *)
CloseTag ==
    /\ mpc = "loop" /\ top # NoNode /\ ReadString
    /\ Head(queue) = matching_tag(object_tag[top].value)
    /\ objects' = IF closes_object(top) THEN Append(objects, current_object) ELSE objects
    /\ SetStack(pop(Stk))
    /\ UNCHANGED <<mpc, current_object, verr, Others, blockVars>>

(* lines 656-658 *)
WrongClosingTag ==
    /\ mpc = "loop" /\ top # NoNode /\ ReadString
    /\ Head(queue) # matching_tag(object_tag[top].value)
    /\ is_closing(Head(queue))
    /\ verr' = Append(verr, error(string_counter', "Not a proper closing tag to",
                                  object_tag[top].value, Head(queue)))
    /\ UNCHANGED <<mpc, stackVars, current_object, objects, Others, blockVars>>

InContainer ==
    /\ mpc = "loop" /\ top # NoNode /\ ReadString
    /\ Head(queue) # matching_tag(object_tag[top].value)
    /\ ~is_closing(Head(queue))
    /\ has_child(top)

(* lines 660-662 *)
OpenChild ==
    /\ InContainer
    /\ find_child(top, Head(queue)) # NoNode
    /\ SetStack(push(Stk, find_child(top, Head(queue))))
    /\ OpenBlock(push(Stk, find_child(top, Head(queue))))
    /\ UNCHANGED <<mpc, current_object, objects, verr, Others>>

(* lines 663-664 *)
OpenedAgain ==
    /\ InContainer
    /\ find_child(top, Head(queue)) = NoNode
    /\ object_tag[top].value = Head(queue)
    /\ verr' = Append(verr, error(string_counter', "Current tag was opened again", None,
                                  Head(queue)))
    /\ UNCHANGED <<mpc, stackVars, current_object, objects, Others, blockVars>>

(* lines 665-675 *)
NotBelong ==
    /\ InContainer
    /\ find_child(top, Head(queue)) = NoNode
    /\ object_tag[top].value # Head(queue)
    /\ verr' = Append(verr, error(string_counter', "This does not belong after tag",
                                  object_tag[top].value, Head(queue)))
    /\ SetStack(search(pop(Stk), Head(queue)))
    /\ OpenBlock(search(pop(Stk), Head(queue)))
    /\ UNCHANGED <<mpc, current_object, objects, Others>>

InLeaf ==
    /\ mpc = "loop" /\ top # NoNode /\ ReadString
    /\ Head(queue) # matching_tag(object_tag[top].value)
    /\ ~is_closing(Head(queue))
    /\ ~has_child(top)

(* lines 679-689 *)
TagInsteadOfValue ==
    /\ InLeaf
    /\ Head(queue)[1] = "<"
    /\ verr' = Append(verr, error(string_counter', "Found tag instead of value", None,
                                  Head(queue)))
    /\ SetStack(search(pop(Stk), Head(queue)))
    /\ OpenBlock(search(pop(Stk), Head(queue)))
    /\ UNCHANGED <<mpc, current_object, objects, Others>>

(* lines 690-691: the value is set; the closing tag is read in the next step *)
SetValue ==
    /\ InLeaf
    /\ Head(queue)[1] # "<"
    /\ LET r == set_value(current_object, object_tag[top].value, Head(queue), string_counter')
       IN  /\ current_object' = r.obj
           /\ verr' = verr \o r.errors
           /\ last_set' = [block |-> field_blocks, base |-> block_base, index |-> r.index,
                           errors |-> r.errors]
    /\ mpc' = "closing"
    /\ UNCHANGED <<stackVars, objects, Others, field_blocks, block_base>>

(* lines 692-699: read_string returns None when the queue is empty *)
ClosingTag ==
    /\ mpc = "closing"
    /\ mpc' = "loop"
    /\ IF queue = <<>>
       THEN UNCHANGED <<queue, string_counter, dequeued, stackVars, verr>>
       ELSE /\ ReadString
            /\ SetStack(pop(Stk))
            /\ verr' = IF Head(queue) = matching_tag(object_tag[top].value) THEN verr
                       ELSE Append(verr, error(string_counter', "Not a proper closing tag to",
                                               object_tag[top].value, Head(queue)))
    /\ UNCHANGED <<current_object, objects, Others, blockVars>>

(* lines 701-705 *)
OpenObject ==
    /\ mpc = "loop" /\ top = NoNode /\ ReadString
    /\ Head(queue) = object_tag[structure].value
    /\ SetStack(push(Stk, structure))
    /\ current_object' = XMLObject(structure)
    /\ field_blocks' = 0 /\ block_base' = 0
    /\ UNCHANGED <<mpc, objects, verr, Others, last_set>>

(* lines 706-707 *)
TextBefore ==
    /\ mpc = "loop" /\ top = NoNode /\ ReadString
    /\ Head(queue) # object_tag[structure].value
    /\ verr' = Append(verr, error(string_counter', "Found text before tag was opened",
                                  object_tag[structure].value, Head(queue)))
    /\ UNCHANGED <<mpc, stackVars, current_object, objects, Others, blockVars>>

(* line 575: the first line of the JSON code *)
line_open == <<"{", "\n">>

(* lines 648 and 708-709: the loop ends; convert starts when there are objects *)
LoopExit ==
    /\ mpc = "loop"
    /\ ~running /\ queue = <<>>
    /\ IF Len(objects) > 0
       THEN /\ mpc' = "convert"
            /\ json' = <<line_open>>
            /\ object_number' = 0
            /\ object_names' = <<>>
       ELSE /\ mpc' = "done"
            /\ UNCHANGED <<json, object_number, object_names>>
    /\ UNCHANGED <<input, file_state, parserVars, threadVars, stackVars, converterVars,
                   object_name, index, correct_object, out_file, enqueued, dequeued, history>>

----------------------------------------------------------------------------
(* Converter.convert, lines 564-612: one step for each object of the for   *)
(* loop and one for each pass of the while loop over its field groups.     *)

Quote == <<"\"">>
line_close == <<"}">>
line_object_end == <<"\t", " ", "}", ",", "\n">>
line_object(_name) == <<"\t", " ">> \o Quote \o _name \o Quote \o <<":", " ", "{", "\n">>
line_field(f_name, f_type, f_value) ==
    <<"\t", "\t">> \o Quote \o f_name \o Quote \o <<":", " ">>
        \o (IF f_type = S_string THEN Quote ELSE <<>>) \o f_value
        \o (IF f_type = S_string THEN Quote ELSE <<>>) \o <<",", "\n">>

(* line 582 with the list of names left empty *)
name_never_seen(_name, names) == _name \in Range(<<>>)

(* line 582 *)
name_seen(_name, names) == _name \in Range(names)

(* lines 600-601 with the name put on the list after any group *)
names_after_any_group(names, _name, correct, valid) ==
    IF ~correct THEN Append(names, _name) ELSE names

(* lines 593-601: the list of names after a group; the name is put on it with
   the first group that is filled and correct *)
names_after_group(names, _name, correct, valid) ==
    IF valid /\ ~correct THEN Append(names, _name) ELSE names

(* line 593 *)
not_filled(f_name, f_type, f_value) == f_name = None \/ f_type = None \/ f_value = None

(* line 596 with the test of isdigit turned around *)
not_integer_inverted(f_type, f_value) == f_type = S_int /\ isdigit(f_value)

(* line 596 *)
not_integer(f_type, f_value) == f_type = S_int /\ ~isdigit(f_value)

(* lines 578-586 and 608-610 *)
ConvertObject ==
    /\ mpc = "convert"
    /\ object_number < Len(objects)
    /\ object_number' = object_number + 1
    /\ LET g == get_value(objects[object_number + 1], T_obj_name, 0)
       IN  /\ object_name' = g[1]
           /\ index' = g[2]
           /\ IF name_seen(g[1], object_names)
              THEN /\ verr' = Append(verr, obj_error(object_number', "Duplicate object name", g[1]))
                   /\ UNCHANGED <<mpc, correct_object>>
              ELSE IF g[1] # None
              THEN /\ correct_object' = FALSE
                   /\ mpc' = "group"
                   /\ UNCHANGED verr
              ELSE /\ verr' = Append(verr, obj_error(object_number', "Object name was not set", None))
                   /\ UNCHANGED <<mpc, correct_object>>
    /\ trail' = Append(trail, [obj |-> object_number', slot |-> -1, lines |-> 0,
                               errors |-> Len(verr') - Len(verr)])
    /\ UNCHANGED <<input, file_state, parserVars, threadVars, stackVars, string_counter,
                   current_object, objects, json, object_names, out_file, enqueued, dequeued,
                   blockVars>>

(* lines 587-607 *)
ConvertGroup ==
    /\ mpc = "group"
    /\ LET xml_object == objects[object_number]
           n == IF index = -1 THEN <<None, -1>> ELSE get_value(xml_object, T_name, index + 1)
           t == get_value(xml_object, T_type, n[2] + 1)
           v == get_value(xml_object, T_value, t[2] + 1)
       IN  /\ IF n[2] = -1
              THEN \* the while loop ends
                   /\ mpc' = "convert"
                   /\ json' = IF correct_object THEN Append(json, line_object_end) ELSE json
                   /\ index' = -1
                   /\ UNCHANGED <<verr, object_names, correct_object>>
              ELSE /\ index' = v[2]
                   /\ IF not_filled(n[1], t[1], v[1])
                      THEN /\ verr' = Append(verr, obj_error(object_number,
                                                 "Required fields were not filled", None))
                           /\ object_names' = names_after_group(object_names, object_name,
                                                                correct_object, FALSE)
                           /\ UNCHANGED <<mpc, json, correct_object>>
                      ELSE IF not_integer(t[1], v[1])
                      THEN /\ verr' = Append(verr, obj_error(object_number,
                                                 "Field value is not an integer", v[1]))
                           /\ object_names' = names_after_group(object_names, object_name,
                                                                correct_object, FALSE)
                           /\ UNCHANGED <<mpc, json, correct_object>>
                      ELSE /\ object_names' = names_after_group(object_names, object_name,
                                                                correct_object, TRUE)
                           /\ json' = (IF correct_object THEN json
                                       ELSE Append(json, line_object(object_name)))
                                      \o <<line_field(n[1], t[1], v[1])>>
                           /\ correct_object' = TRUE
                           /\ UNCHANGED <<mpc, verr>>
           /\ trail' = Append(trail, [obj |-> object_number, slot |-> n[2],
                                      lines |-> Len(json') - Len(json),
                                      errors |-> Len(verr') - Len(verr)])
    /\ UNCHANGED <<input, file_state, parserVars, threadVars, stackVars, string_counter,
                   current_object, objects, object_number, object_name, out_file, enqueued,
                   dequeued, blockVars>>

(* lines 611-612 and 710 *)
ConvertEnd ==
    /\ mpc = "convert"
    /\ object_number = Len(objects)
    /\ json' = Append(json, line_close)
    /\ mpc' = "flush"
    /\ UNCHANGED <<input, file_state, parserVars, threadVars, stackVars, converterVars,
                   object_number, object_names, object_name, index, correct_object, out_file,
                   enqueued, dequeued, history>>

----------------------------------------------------------------------------
(* Converter.flush, lines 534-562.                                         *)

output_filename == <<"o", "u", "t", "p", "u", "t", ".", "j", "s", "o", "n">>
no_trailing_comma == {line_close, line_object_end}

(* str.replace(old, "", count): the first count occurrences of old are taken out, all of them
   when count is negative *)
RECURSIVE replace(_, _, _)
replace(s, old, count) ==
    IF s = <<>> \/ count = 0 THEN s
    ELSE IF Head(s) = old THEN replace(Tail(s), old, count - 1)
    ELSE <<Head(s)>> \o replace(Tail(s), old, count)

(* line 556 with a count of 1: the first comma of the line is taken out *)
strip_first_comma(string1) == replace(string1, ",", 1)

(* line 556 *)
strip_comma(string1) == replace(string1, ",", Len(string1) - 2)

(* lines 552-557: what the while loop writes, and string2 after it *)
RECURSIVE flush_loop(_, _, _)
flush_loop(string2, rest, written) ==
    IF rest = <<>> THEN Append(written, string2)
    ELSE LET s1 == IF Head(rest) \in no_trailing_comma THEN strip_comma(string2) ELSE string2
         IN  flush_loop(Head(rest), Tail(rest), Append(written, s1))

(* lines 543-545 with the test for an empty body left out *)
body_never_empty(_json) == Len(_json) < 2

(* lines 543-545: two lines were taken and the queue is empty *)
body_empty(_json) == Len(_json) = 2

Flush ==
    /\ mpc = "flush"
    /\ mpc' = "done"
    /\ IF json = <<>>
       THEN /\ verr' = Append(verr, error(string_counter, "Nothing to write to file", None,
                                          output_filename))
            /\ UNCHANGED out_file
       ELSE IF body_empty(json)
       THEN /\ verr' = Append(verr, obj_error(-1,
                                  "Final object: JSON body is empty, nothing to write", None))
            /\ UNCHANGED out_file
       ELSE \/ /\ out_file' = flush_loop(json[2], SubSeq(json, 3, Len(json)), <<json[1]>>)
               /\ UNCHANGED verr
            \/ \* open raises IOError
               /\ verr' = Append(verr, error(string_counter, "Unable to create file", None,
                                             output_filename))
               /\ UNCHANGED out_file
    /\ UNCHANGED <<input, file_state, parserVars, threadVars, stackVars, string_counter,
                   current_object, objects, convertVars, enqueued, dequeued, history>>

Validator ==
    \/ CloseTag \/ WrongClosingTag \/ OpenChild \/ OpenedAgain \/ NotBelong
    \/ TagInsteadOfValue \/ SetValue \/ ClosingTag \/ OpenObject \/ TextBefore \/ LoopExit

Serializer == ConvertObject \/ ConvertGroup \/ ConvertEnd \/ Flush

Next == ParserOpen \/ ParserLoop \/ ParserPut \/ ParserInit \/ Validator \/ Serializer

Spec == Init /\ [][Next]_vars

(* each thread keeps running while it has a step to take *)
FairSpec ==
    /\ Spec
    /\ WF_vars(ParserOpen \/ ParserLoop \/ ParserPut)
    /\ WF_vars(ParserInit \/ Validator \/ Serializer)


----------------------------------------------------------------------------
(* The claims.                                                             *)

LoopEnded == mpc \in {"convert", "group", "flush", "done"}
ConvertEnded == mpc \in {"flush", "done"}
Last(s) == s[Len(s)]

(* C1: under fair scheduling of the two threads, for every input and every
   interleaving, the loop of Converter.run is left and the run goes on to
   convert and flush (or ends, when there is nothing to convert). *)
C1_LoopExits == <>LoopEnded

(* C2: no string is lost, repeated or reordered between put and read_string,
   and when the loop of Converter.run has ended every string that is ever put
   on the queue has been read. *)
C2_AllRead ==
    /\ enqueued = dequeued \o queue
    /\ LoopEnded => dequeued = enqueued

(* C3: whenever strings are queued, the queue has a capacity, a positive
   maxsize, that their number does not exceed. *)
C3_Bounded == queue # <<>> => (0 < maxsize /\ Len(queue) <= maxsize)

(* C4: for an input that conforms to the structure (objects with different
   names, each with at least one complete field block whose type is int or
   string and whose int value is made of digits), the text written to the
   output is one entry for each object, keyed by its name, with one member for
   each field block in order, the value in quotes iff the type is string, and
   no error is sent; Alpha with count/int/5 gives {"Alpha": {"count": 5}}. *)
C4_AllDigits(v) == v # <<>> /\ \A i \in 1..Len(v) : v[i] \in Digits
C4_FieldConforms(f) ==
    /\ f.n # None /\ f.v # None
    /\ f.t \in {S_int, S_string}
    /\ f.t = S_int => C4_AllDigits(f.v)
C4_Conforms(d) ==
    /\ \A i \in 1..Len(d) :
          /\ d[i].fields # <<>>
          /\ \A k \in 1..Len(d[i].fields) : C4_FieldConforms(d[i].fields[k])
    /\ \A i, j \in 1..Len(d) : i # j => d[i].name # d[j].name
RECURSIVE C4_Join(_)
C4_Join(ss) ==
    IF ss = <<>> THEN <<>>
    ELSE IF Len(ss) = 1 THEN ss[1]
    ELSE ss[1] \o <<",">> \o C4_Join(Tail(ss))
C4_Member(f) ==
    <<"\"">> \o f.n \o <<"\"", ":">>
        \o (IF f.t = S_string THEN <<"\"">> \o f.v \o <<"\"">> ELSE f.v)
C4_Entry(o) ==
    <<"\"">> \o o.name \o <<"\"", ":", "{">>
        \o C4_Join([k \in 1..Len(o.fields) |-> C4_Member(o.fields[k])]) \o <<"}">>
C4_Expected(d) == <<"{">> \o C4_Join([i \in 1..Len(d) |-> C4_Entry(d[i])]) \o <<"}">>
C4_IsBlank(c) == c \in Whitespace
C4_Written == SelectSeq(Concat(out_file), LAMBDA c : ~C4_IsBlank(c))
C4_Output ==
    \A d \in Docs :
        (mpc = "done" /\ out_file # NoFile /\ d # <<>> /\ C4_Conforms(d)
            /\ input = Concat(DocToks(d)))
        => (C4_Written = C4_Expected(d) /\ verr = <<>> /\ perr = <<>>)

(* the groups of an object: the 0-based indices of its <name> slots *)
GroupsOf(o) == {i \in 0..(Len(o.tags) - 3) : o.tags[i + 1] = T_name}
NameOf(o) == o.values[1]
Emitted(r) == \E k \in 1..Len(trail) : trail[k].obj = r /\ trail[k].lines > 0
SameNameEarlier(r) == {q \in 1..(r - 1) : NameOf(objects[q]) = NameOf(objects[r])}
C5_BadInt(o, i) ==
    /\ o.values[i + 2] = S_int
    /\ o.values[i + 3] # None
    /\ \E k \in 1..Len(o.values[i + 3]) : o.values[i + 3][k] \notin Digits
C5_GroupDropped(r, i) ==
    /\ Cardinality({k \in 1..Len(trail) : trail[k].obj = r /\ trail[k].slot = i}) = 1
    /\ \A k \in 1..Len(trail) :
          (trail[k].obj = r /\ trail[k].slot = i) => (trail[k].lines = 0 /\ trail[k].errors = 1)

(* C5 as stated: for each field group of a finalized object with a name, whose
   type is int and whose value is not made of digits, convert puts no line,
   sends exactly one error and goes on. *)
C5_Original ==
    ConvertEnded =>
        \A r \in 1..Len(objects) : NameOf(objects[r]) # None =>
            \A i \in GroupsOf(objects[r]) :
                C5_BadInt(objects[r], i) => C5_GroupDropped(r, i)

(* C5 as amended: the same for each object with a name that is not the name
   of an earlier object for which convert put lines. *)
C5_Amended ==
    ConvertEnded =>
        \A r \in 1..Len(objects) :
            (NameOf(objects[r]) # None /\ \A q \in SameNameEarlier(r) : ~Emitted(q)) =>
                \A i \in GroupsOf(objects[r]) :
                    C5_BadInt(objects[r], i) => C5_GroupDropped(r, i)

C5_Witness ==
    /\ mpc = "done"
    /\ \E r \in 1..Len(objects) :
          /\ NameOf(objects[r]) # None
          /\ \A q \in SameNameEarlier(r) : ~Emitted(q)
          /\ \E i \in GroupsOf(objects[r]) :
                C5_BadInt(objects[r], i) /\ C5_GroupDropped(r, i)

C6_IsDuplicateError(r, e) ==
    e.pre = "Object" /\ e.number = r /\ e.msg = "Duplicate object name"
C6_Skipped(r) ==
    /\ \A k \in 1..Len(trail) : trail[k].obj = r => trail[k].lines = 0
    /\ Cardinality({k \in 1..Len(verr) : C6_IsDuplicateError(r, verr[k])}) = 1

(* C6 as stated: when two finalized objects have the same name, convert puts no
   line for the second and sends exactly one duplicate-name error for it. *)
C6_Original ==
    ConvertEnded =>
        \A r \in 1..Len(objects) :
            (NameOf(objects[r]) # None /\ SameNameEarlier(r) # {}) => C6_Skipped(r)

(* C6 as amended: the same when an earlier object of that name is one for which
   convert put lines. *)
C6_Amended ==
    ConvertEnded =>
        \A r \in 1..Len(objects) :
            (NameOf(objects[r]) # None /\ \E q \in SameNameEarlier(r) : Emitted(q))
                => C6_Skipped(r)

C6_Witness ==
    /\ mpc = "done"
    /\ \E r \in 1..Len(objects) :
          /\ NameOf(objects[r]) # None
          /\ \E q \in SameNameEarlier(r) : Emitted(q)
          /\ GroupsOf(objects[r]) # {}
          /\ C6_Skipped(r)

(* C7: in an input for which nothing was reported so far, a value set in the
   second or a later <field> block of an object goes to a slot appended since
   that block was opened, and no duplicate-value error is sent for it. *)
C7_NewSlots ==
    (last_set.block >= 2 /\ perr = <<>> /\ Len(verr) = Len(last_set.errors)) =>
        /\ last_set.index = -1 \/ last_set.index >= last_set.base
        /\ \A k \in 1..Len(last_set.errors) :
              last_set.errors[k].msg # "Duplicate value definition"

(* C8: when a tag that does not belong arrives (in a container or in place of a
   value) and a node below top on the stack has a child of that tag, the step
   ends with top that child, pushed right above the highest such node, and the
   current object is as it was. *)
C8_IsSearch(e) == e.msg \in {"This does not belong after tag", "Found tag instead of value"}
C8_Accepting(s) == {k \in 1..(Len(stack) - 1) : find_child(stack[k], s) # NoNode}
C8_Nearest(s) == CHOOSE k \in C8_Accepting(s) : \A j \in C8_Accepting(s) : j <= k
C8_Recovery ==
    [][(Len(verr') = Len(verr) + 1 /\ C8_IsSearch(Last(verr')) /\ C8_Accepting(Head(queue)) # {})
        => /\ top' = find_child(stack[C8_Nearest(Head(queue))], Head(queue))
           /\ stack' = Append(SubSeq(stack, 1, C8_Nearest(Head(queue))), top')
           /\ current_object' = current_object]_vars

C8_Witness ==
    /\ mpc = "loop" /\ verr # <<>>
    /\ C8_IsSearch(Last(verr))
    /\ Last(verr).number = string_counter
    /\ Len(stack) >= 2
    /\ object_tag[top].value = Last(verr).str
    /\ \E i \in 1..Len(current_object.values) : current_object.values[i] # None

(* C9: in the strings written to the output, the string before a closing brace
   ("}" or the end of an object block) never ends with a comma. *)
C9_IsClosing(l) == \E i \in 1..Len(l) : l[i] = "}" /\ \A j \in 1..(i - 1) : l[j] \in Whitespace
C9_EndsWithComma(l) ==
    \E i \in 1..Len(l) : l[i] = "," /\ \A j \in (i + 1)..Len(l) : l[j] \in Whitespace
C9_NoTrailingComma ==
    out_file # NoFile =>
        \A k \in 1..(Len(out_file) - 1) :
            C9_IsClosing(out_file[k + 1]) => ~C9_EndsWithComma(out_file[k])

C9_Witness ==
    /\ out_file # NoFile
    /\ Cardinality({k \in 1..Len(out_file) : C9_IsClosing(out_file[k])}) >= 2
    /\ \E k \in 1..(Len(out_file) - 2) :
          ~C9_IsClosing(out_file[k + 1]) /\ C9_EndsWithComma(out_file[k])
             /\ ~C9_EndsWithComma(out_file[k + 1]) /\ C9_IsClosing(out_file[k + 2])

(* C10: when the loop ends with no finalized object (the input file was read),
   the run sends an error that says there is nothing to write, and writes no
   file. *)
C10_IsNothing(e) ==
    e.msg \in {"Nothing to write to file", "Final object: JSON body is empty, nothing to write"}
C10_NothingToWrite ==
    (mpc = "done" /\ file_state = "ok" /\ objects = <<>>) =>
        (out_file = NoFile /\ \E k \in 1..Len(verr) : C10_IsNothing(verr[k]))

(* C11: when objects were finalized and convert put only the opening and the
   closing line, the step of flush opens no output file and sends exactly one
   error; the file stays unwritten to the end of the run. *)
C11_OnlyBraces == objects # <<>> /\ json = <<line_open, line_close>>
C11_EmptyBody ==
    [][(mpc = "flush" /\ C11_OnlyBraces)
        => (out_file' = NoFile /\ Len(verr') = Len(verr) + 1
            /\ SubSeq(verr', 1, Len(verr)) = verr /\ mpc' = "done")]_vars

C11_Witness ==
    /\ mpc = "done" /\ C11_OnlyBraces /\ out_file = NoFile
    /\ verr # <<>> /\ Last(verr).msg = "Final object: JSON body is empty, nothing to write"

(* C12: the list of objects changes only in a step that reads the closing tag
   of the top level tag while the top level node is the top of the stack; the
   step appends the current object and leaves the stack empty; so there are
   never more objects than closing tags of the top level tag that were read. *)
C12_RootCloses(s) == Cardinality({k \in 1..Len(s) : s[k] = matching_tag(T_object)})
C12_AppendOnly ==
    [][objects' # objects
        => /\ mpc = "loop" /\ queue # <<>>
           /\ Head(queue) = matching_tag(object_tag[structure].value)
           /\ dequeued' = Append(dequeued, Head(queue))
           /\ top = structure
           /\ objects' = Append(objects, current_object)
           /\ stack' = <<>> /\ top' = NoNode
           /\ Len(objects') <= C12_RootCloses(dequeued')]_vars

C12_Witness ==
    /\ mpc = "done" /\ Len(objects) = 1
    /\ C12_RootCloses(dequeued) = 1
    /\ Cardinality({k \in 1..Len(dequeued) : dequeued[k] = T_object}) = 2
    /\ stack # <<>>

(* C13: every string the Parser puts on the queue is an opening or closing tag
   of the structure, or a value that comes right after the opening tag of a
   leaf, is printable and has none of the characters < > " ' &; a step that
   rejects a tag or a value puts nothing on the queue and the thread goes on
   with the text after it. *)
C13_Tags == {object_tag[n].value : n \in Nodes}
C13_LeafTags == {object_tag[n].value : n \in {m \in Nodes : object_tag[m].children = <<>>}}
C13_IsTag(t) ==
    \/ t \in C13_Tags
    \/ \E o \in C13_Tags : t = <<"<", "/">> \o SubSeq(o, 2, Len(o))
C13_IsValue(v) ==
    /\ v # <<>>
    /\ \A i \in 1..Len(v) : v[i] \notin {"<", ">", "\"", "'", "&", "\n", "\t"}
C13_Rejects(e) ==
    e.msg \in {"Found incorrect tag", "Found illegal characters in value",
               "Found non-printable characters in value"}
C13_OnlyCorrect ==
    [][/\ enqueued' # enqueued =>
            /\ enqueued' = Append(enqueued, Last(enqueued'))
            /\ queue' = Append(queue, Last(enqueued'))
            /\ \/ C13_IsTag(Last(enqueued'))
               \/ /\ enqueued # <<>> /\ Last(enqueued) \in C13_LeafTags
                  /\ C13_IsValue(Last(enqueued'))
       /\ (Len(perr') > Len(perr) /\ C13_Rejects(Last(perr'))) =>
            /\ enqueued' = enqueued /\ queue' = queue
            /\ ~C13_IsTag(Last(perr').str)
            /\ char_counter' > char_counter
            /\ lpc' = "loop" /\ running' = (char' # NoChar)]_vars

C13_Witness ==
    /\ lpc = "done" /\ char_counter = Len(input)
    /\ perr # <<>> /\ Last(perr).msg = "Found illegal characters in value"
    /\ Len(enqueued) >= 12 /\ Last(enqueued) = matching_tag(T_object)
    /\ \E k \in 2..Len(enqueued) : enqueued[k - 1] = T_value /\ C13_IsValue(enqueued[k])

(* C14: a finalized object with a name and no field group that is filled and
   correct gets no line, its name is on the list of names only when another
   object put it there, and a later object of that name with a correct group,
   the first of that name to put lines, is emitted without a duplicate-name
   error. *)
C14_ValidGroup(o, i) ==
    /\ o.values[i + 1] # None /\ o.values[i + 2] # None /\ o.values[i + 3] # None
    /\ o.values[i + 2] = S_int => C4_AllDigits(o.values[i + 3])
C14_NoValid(o) == \A i \in GroupsOf(o) : ~C14_ValidGroup(o, i)
C14_NoDuplicateError(q) == \A k \in 1..Len(verr) : ~C6_IsDuplicateError(q, verr[k])
C14_NotRemembered ==
    ConvertEnded =>
        \A r \in 1..Len(objects) :
            (NameOf(objects[r]) # None /\ C14_NoValid(objects[r])) =>
                /\ ~Emitted(r)
                /\ NameOf(objects[r]) \in Range(object_names) =>
                      \E q \in 1..Len(objects) :
                          q # r /\ NameOf(objects[q]) = NameOf(objects[r]) /\ Emitted(q)
                /\ \A q \in (r + 1)..Len(objects) :
                      (/\ NameOf(objects[q]) = NameOf(objects[r])
                       /\ ~C14_NoValid(objects[q])
                       /\ \A p \in SameNameEarlier(q) : ~Emitted(p))
                      => (Emitted(q) /\ C14_NoDuplicateError(q))

C14_Witness ==
    /\ mpc = "done" /\ Len(objects) = 2
    /\ NameOf(objects[1]) # None /\ NameOf(objects[2]) = NameOf(objects[1])
    /\ GroupsOf(objects[1]) # {} /\ C14_NoValid(objects[1]) /\ ~Emitted(1)
    /\ Emitted(2) /\ C14_NoDuplicateError(2)
    /\ object_names = <<NameOf(objects[2])>>

(* C15: when the Converter is back at the head of its loop after it set a
   value, with the leaf still on top of the stack, no string that follows the
   value is waiting in the queue: the step that set the value has read it and
   popped the leaf. *)
C15_ValueJustSet ==
    /\ mpc = "loop" /\ top # NoNode /\ ~has_child(top)
    /\ dequeued # <<>> /\ Last(dequeued)[1] # "<"
C15_ClosingRead == C15_ValueJustSet => queue = <<>>

(* C16: a step at the head of the loop that reads, with a leaf on top of the
   stack, a string that does not start with "<" is a call of set_value for the
   tag of the leaf with that string: the object and the errors after the step
   are those of set_value. *)
C16_ValueAsValue ==
    [][(/\ mpc = "loop" /\ top # NoNode /\ ~has_child(top)
        /\ queue # <<>> /\ Head(queue)[1] # "<"
        /\ dequeued' = Append(dequeued, Head(queue)))
        => /\ current_object' =
                set_value(current_object, object_tag[top].value, Head(queue),
                          string_counter + 1).obj
           /\ verr' = verr \o set_value(current_object, object_tag[top].value, Head(queue),
                                        string_counter + 1).errors]_vars

(* C17: the stack is empty with top None, or it is a path of the structure:
   its first element is the top level node, every other element is a child of
   the element right below it, and top is its last element. *)
C17_IsChild(c, p) == \E i \in 1..Len(object_tag[p].children) : object_tag[p].children[i] = c
C17_StackIsPath ==
    IF stack = <<>> THEN top = NoNode
    ELSE /\ stack[1] = structure
         /\ \A k \in 2..Len(stack) : C17_IsChild(stack[k], stack[k - 1])
         /\ top = stack[Len(stack)]

C17_Witness ==
    /\ stack = <<"object", "field", "type">>
    /\ verr # <<>> /\ C8_IsSearch(Last(verr)) /\ Last(verr).number = string_counter

(* C18: the current object and every finalized object have as many values as
   tags, after construction and after every call of set_value, the calls that
   append the slots of a repeatable parent included. *)
C18_SameLength(o) == Len(o.tags) = Len(o.values)
C18_TagsAndValues ==
    /\ C18_SameLength(current_object)
    /\ \A r \in 1..Len(objects) : C18_SameLength(objects[r])

C18_Witness ==
    /\ Len(current_object.tags) > Len(leaves(structure))
    /\ last_set.index >= Len(leaves(structure))
    /\ C18_SameLength(current_object)
    /\ objects # <<>> /\ Last(objects) = current_object

(* C19: a step at the head of the loop that reads a string other than the top
   level tag with no object open, or a string of the shape of a closing tag
   that is not the closing tag of top, or the tag of top itself with top a
   container, sends exactly one error and leaves the stack, the current object
   and the list of objects as they are. *)
C19_ClosingShape(s) == Len(s) >= 2 /\ s[1] = "<" /\ s[2] = "/"
C19_OnlyError(s) ==
    \/ top = NoNode /\ s # T_object
    \/ top # NoNode /\ C19_ClosingShape(s)
          /\ s # <<"<", "/">> \o SubSeq(object_tag[top].value, 2, Len(object_tag[top].value))
    \/ top # NoNode /\ object_tag[top].children # <<>> /\ s = object_tag[top].value
C19_Frame ==
    [][(/\ mpc = "loop" /\ queue # <<>>
        /\ dequeued' = Append(dequeued, Head(queue))
        /\ C19_OnlyError(Head(queue)))
        => /\ Len(verr') = Len(verr) + 1
           /\ SubSeq(verr', 1, Len(verr)) = verr
           /\ stack' = stack /\ top' = top
           /\ current_object' = current_object /\ objects' = objects]_vars

C19_Witness ==
    /\ mpc = "loop" /\ top # NoNode /\ has_child(top) /\ Len(stack) = 2
    /\ verr # <<>> /\ Last(verr).msg = "Not a proper closing tag to"
    /\ Last(verr).number = string_counter /\ Last(verr).arg = object_tag[top].value
    /\ C19_ClosingShape(Last(dequeued))
    /\ \E i \in 1..Len(current_object.values) : current_object.values[i] # None

(* the 0-based index of the last slot of a tag, and the step that calls
   set_value for the tag of top with the string read *)
C20_LastSlot(o, tag) ==
    CHOOSE i \in 0..(Len(o.tags) - 1) :
        o.tags[i + 1] = tag /\ \A j \in (i + 1)..(Len(o.tags) - 1) : o.tags[j + 1] # tag
C20_Calls == mpc = "loop" /\ mpc' = "closing"
C20_Tag == object_tag[top].value
C20_Taken == current_object.values[C20_LastSlot(current_object, C20_Tag) + 1] # None
C20_Repeatable == object_tag[object_tag[top].parent].repeatable
C20_Allowed(v) ==
    object_tag[top].allowed_values = NoAllowedValues \/ v \in object_tag[top].allowed_values
C20_KeepsSetSlots ==
    /\ Len(current_object'.values) >= Len(current_object.values)
    /\ SubSeq(current_object'.tags, 1, Len(current_object.tags)) = current_object.tags
    /\ \A j \in 1..Len(current_object.values) :
          current_object.values[j] # None => current_object'.values[j] = current_object.values[j]
C20_Appended ==
    /\ current_object'.tags = current_object.tags \o leaves(object_tag[top].parent)
    /\ Len(current_object'.values) = Len(current_object'.tags)
    /\ \A j \in (Len(current_object.values) + 1)..Len(current_object'.values) :
          j # C20_LastSlot(current_object', C20_Tag) + 1 => current_object'.values[j] = None
C20_NewSlot == current_object'.values[C20_LastSlot(current_object', C20_Tag) + 1]
C20_DuplicateOnly ==
    /\ current_object' = current_object
    /\ Len(verr') = Len(verr) + 1 /\ Last(verr').msg = "Duplicate value definition"

(* C20 as stated: a call of set_value changes no slot that holds a value; when
   the last slot of the tag holds one, the call appends unset slots for the
   leaves of the repeatable parent and writes the value to the new slot of the
   tag, or, the parent not repeatable, sends a duplicate-value error and writes
   nothing. *)
C20_Original ==
    [][C20_Calls =>
        /\ C20_KeepsSetSlots
        /\ C20_Taken =>
              IF C20_Repeatable
              THEN C20_Appended /\ C20_NewSlot = Head(queue)
              ELSE C20_DuplicateOnly]_vars

(* C20 as amended: the same, the value written to the new slot when it is
   allowed in the tag; a value that is not allowed is written nowhere and the
   new slot stays unset. *)
C20_Amended ==
    [][C20_Calls =>
        /\ C20_KeepsSetSlots
        /\ C20_Taken =>
              IF C20_Repeatable
              THEN /\ C20_Appended
                   /\ C20_NewSlot = IF C20_Allowed(Head(queue)) THEN Head(queue) ELSE None
              ELSE C20_DuplicateOnly]_vars

C20_Witness ==
    /\ mpc = "closing" /\ top = "value"
    /\ Len(current_object.tags) = 2 * Len(leaves(structure)) - 1
    /\ last_set.index = Len(current_object.tags) - 1
    /\ current_object.values[last_set.index + 1] = Last(dequeued)
    /\ current_object.values[Len(leaves(structure))] # None

(* C21: for an input that is a document, every field line convert puts is the
   line of one <field> block of the document: its name, type and value are
   the three leaves of that block. *)
C21_IsFieldLine(l) == Len(l) > 2 /\ l[1] = "\t" /\ l[2] = "\t"
C21_Blocks(d) == UNION {Range(d[i].fields) : i \in 1..Len(d)}
C21_LineOf(f) ==
    <<"\t", "\t", "\"">> \o f.n \o <<"\"", ":", " ">>
        \o (IF f.t = S_string THEN <<"\"">> \o f.v \o <<"\"">> ELSE f.v) \o <<",", "\n">>
C21_Text == [d \in Docs |-> Concat(DocToks(d))]
C21_OneBlock ==
    \A k \in 1..Len(json) :
        C21_IsFieldLine(json[k]) =>
            \A d \in Docs :
                input = C21_Text[d] =>
                    \E f \in C21_Blocks(d) :
                        f.n # None /\ f.t # None /\ f.v # None /\ json[k] = C21_LineOf(f)

(* C22: the strings written to the output are the lines convert put, once each
   and in their order; a written string is the line itself, or the line
   without its last comma and every other character as it was. *)
C22_Commas(l) == {i \in 1..Len(l) : l[i] = ","}
C22_WithoutLastComma(l) ==
    LET i == CHOOSE c \in C22_Commas(l) : \A j \in C22_Commas(l) : j <= c
    IN  SubSeq(l, 1, i - 1) \o SubSeq(l, i + 1, Len(l))
C22_OnlyLastComma ==
    out_file # NoFile =>
        /\ Len(out_file) = Len(json)
        /\ \A k \in 1..Len(json) :
              \/ out_file[k] = json[k]
              \/ C22_Commas(json[k]) # {} /\ out_file[k] = C22_WithoutLastComma(json[k])

(* the loop of Converter.run when every read finds the next string of the
   stream in the queue: the stack, the objects and the errors after the
   strings toks *)
RECURSIVE C23_Run(_, _)
C23_Run(S, toks) ==
    IF toks = <<>> THEN S
    ELSE
      LET s == Head(toks)
          K == [stack |-> S.stack, top |-> S.top]
          N == [S EXCEPT !.n = @ + 1]
          Err(message, arg) == [N EXCEPT !.verr = Append(@, error(N.n, message, arg, s))]
          To(R, Z) == [R EXCEPT !.stack = Z.stack, !.top = Z.top]
      IN
      IF S.top = NoNode
      THEN IF s = object_tag[structure].value
           THEN C23_Run([To(N, push(K, structure)) EXCEPT !.cur = XMLObject(structure)],
                        Tail(toks))
           ELSE C23_Run(Err("Found text before tag was opened", object_tag[structure].value),
                        Tail(toks))
      ELSE IF s = matching_tag(object_tag[S.top].value)
      THEN C23_Run([To(N, pop(K)) EXCEPT
                        !.objects = IF closes_object(S.top) THEN Append(@, S.cur) ELSE @],
                   Tail(toks))
      ELSE IF is_closing(s)
      THEN C23_Run(Err("Not a proper closing tag to", object_tag[S.top].value), Tail(toks))
      ELSE IF has_child(S.top)
      THEN IF find_child(S.top, s) # NoNode
           THEN C23_Run(To(N, push(K, find_child(S.top, s))), Tail(toks))
           ELSE IF object_tag[S.top].value = s
           THEN C23_Run(Err("Current tag was opened again", None), Tail(toks))
           ELSE C23_Run(To(Err("This does not belong after tag", object_tag[S.top].value),
                           search(pop(K), s)), Tail(toks))
      ELSE IF s[1] = "<"
      THEN C23_Run(To(Err("Found tag instead of value", None), search(pop(K), s)), Tail(toks))
      ELSE
        LET r == set_value(S.cur, object_tag[S.top].value, s, N.n)
            V == [N EXCEPT !.cur = r.obj, !.verr = @ \o r.errors]
        IN  IF Tail(toks) = <<>> THEN V
            ELSE LET c == toks[2]
                     W == [To(V, pop(K)) EXCEPT !.n = @ + 1]
                 IN  C23_Run(IF c = matching_tag(object_tag[S.top].value) THEN W
                             ELSE [W EXCEPT !.verr = Append(@, error(W.n,
                                       "Not a proper closing tag to", object_tag[S.top].value, c))],
                             Tail(Tail(toks)))
C23_Start ==
    [stack |-> <<>>, top |-> NoNode, cur |-> XMLObject(structure), objects |-> <<>>,
     verr |-> <<>>, n |-> 0]

(* C23: when the loop of Converter.run has ended, the Parser has ended and
   every string it put was read, the objects and the errors of the Converter
   are those of the run in which every read finds the next string in the
   queue, whatever the interleaving was. *)
C23_SameResult ==
    (LoopEnded /\ trail = <<>> /\ lpc \in {"done", "dead"} /\ dequeued = enqueued) =>
        /\ objects = C23_Run(C23_Start, enqueued).objects
        /\ verr = C23_Run(C23_Start, enqueued).verr

(* C24: a call of set_value with a value that is not among the allowed values
   of the tag sends one error and leaves the tags and the values of the object
   as they were before the call. *)
C24_RejectedUnchanged ==
    [][(C20_Calls /\ ~C20_Allowed(Head(queue)))
        => /\ Len(verr') = Len(verr) + 1
           /\ Last(verr').msg = "Value is not allowed in this tag"
           /\ current_object'.tags = current_object.tags
           /\ current_object'.values = current_object.values]_vars

=============================================================================
